---- MODULE Spec2Model ----
(***************************************************************************)
(* Model of streamlit_app.py: a Streamlit script that reads a CSV of       *)
(* injects, sorts it by Time, derives one interval per Serial and, for the *)
(* selected Serial, one interval per inject, with on-bar text, tooltip     *)
(* snippet and image reference.  One action of the model is one complete   *)
(* run of the script, triggered by one widget event.                       *)
(***************************************************************************)
EXTENDS Integers, Sequences, FiniteSets, TLC

VARIABLES
    uploaded_file,       \* the file uploader's value: [present, rows]
    df,                  \* the DataFrame after to_datetime and sort_values
    session_state,       \* st.session_state: a function with at most the key "serial_index"
    label_option,        \* value of the "Persona"/"Channel" radio
    serial_timeline,     \* list of {Serial, Start, End} in serials order
    inject_timeline,     \* list of inject records of the selected serial
    image_layer,         \* rows of inject_timeline that pass the image filter
    screen,              \* what the run rendered: "info", "error", "overall", "detailed"
    last_event           \* the widget event that triggered the last run

vars == <<uploaded_file, df, session_state, label_option, serial_timeline,
          inject_timeline, image_layer, screen, last_event>>

----------------------------------------------------------------------------
(* Bounds of the model *)

MaxRows == 3

NumSerials == 3

MaxTime == 2

MaxText == 2

MaxShuffled == 2

----------------------------------------------------------------------------
(* Values *)

\* A missing value in a text column (pandas NaN).
NaN == <<"NaN">>

\* A Time that did not parse (pandas NaT, from errors="coerce").
NaT == -1

\* A Time cell whose text is not a date.
BadTime == 0

DisplayLimit == 30

SnippetLimit == 120

OverallTimeline == "Overall Timeline"

Ellipsis == <<".", ".", ".">>

Rep(c, n) == [i \in 1..n |-> c]

KeyNames == <<"S1", "S2", "S3", "S4", "S5">>

Keys == {KeyNames[k] : k \in 1..NumSerials}

Times == 1..MaxTime

----------------------------------------------------------------------------
(* Text helpers: str.strip() and str.lower() *)

IsSpace(c) == c \in {" ", "\t"}

RECURSIVE LStrip(_)
LStrip(s) ==
    IF s = <<>> THEN <<>>
    ELSE IF IsSpace(Head(s)) THEN LStrip(Tail(s)) ELSE s

RECURSIVE RStrip(_)
RStrip(s) ==
    IF s = <<>> THEN <<>>
    ELSE IF IsSpace(s[Len(s)]) THEN RStrip(SubSeq(s, 1, Len(s) - 1)) ELSE s

Strip(s) == RStrip(LStrip(s))

LowerChar(c) ==
    CASE c = "N" -> "n"
      [] c = "U" -> "u"
      [] c = "L" -> "l"
      [] c = "H" -> "h"
      [] c = "I" -> "i"
      [] OTHER -> c

Lower(s) == [i \in 1..Len(s) |-> LowerChar(s[i])]

----------------------------------------------------------------------------
(* Reading the CSV *)

\* Cell texts that pd.read_csv turns into NaN by default (those over the
\* model's alphabet).
NaValues == {<<>>, <<"n", "u", "l", "l">>, <<"N", "U", "L", "L">>}

ReadCell(cell) == IF cell \in NaValues THEN NaN ELSE cell

ReadCsv(rows) ==
    [i \in 1..Len(rows) |->
        [Serial   |-> rows[i].Serial,
         Time     |-> rows[i].Time,
         Subject  |-> ReadCell(rows[i].Subject),
         Message  |-> ReadCell(rows[i].Message),
         ImageURL |-> ReadCell(rows[i].ImageURL),
         From     |-> rows[i].From,
         Method   |-> rows[i].Method]]

ToDatetime(frame) ==
    [i \in 1..Len(frame) |->
        [frame[i] EXCEPT !.Time = IF @ = BadTime THEN NaT ELSE @]]

AllTimeNull(frame) == \A i \in 1..Len(frame) : frame[i].Time = NaT

\* Order of sort_values: ascending, missing values last.
TimeLE(a, b) == b = NaT \/ (a # NaT /\ a <= b)

RECURSIVE SortedOrders(_, _, _)
SortedOrders(frame, col, S) ==
    IF S = {} THEN {<<>>}
    ELSE UNION { { <<i>> \o rest : rest \in SortedOrders(frame, col, S \ {i}) } :
                 i \in {m \in S : \A o \in S : TimeLE(frame[m][col], frame[o][col])} }

\* Variant: the rows are left in the order given.
SortValuesOrderKept(frame, col) == {frame}

\* sort_values(col).reset_index(drop=True) with the default (unstable) sort:
\* every ascending arrangement of the rows is a possible result.
SortValues(frame, col) ==
    { [i \in 1..Len(frame) |-> frame[p[i]]] :
        p \in SortedOrders(frame, col, 1..Len(frame)) }

----------------------------------------------------------------------------
(* Overall (Serial-level) timeline *)

Column(frame, col) == [i \in 1..Len(frame) |-> frame[i][col]]

\* Series.unique(): the distinct values in order of first appearance.
RECURSIVE Unique(_, _)
Unique(column, n) ==
    IF n = 0 THEN <<>>
    ELSE LET u == Unique(column, n - 1)
         IN IF \E k \in 1..Len(u) : u[k] = column[n] THEN u ELSE Append(u, column[n])

Serials(frame) == Unique(Column(frame, "Serial"), Len(frame))

\* frame[frame["Serial"] == serial]
Group(frame, serial) == SelectSeq(frame, LAMBDA r : r.Serial = serial)

\* Variant: the start is taken from the group's last row.
StartTimeOfLastRow(frame, serials, i) ==
    LET group == Group(frame, serials[i]) IN group[Len(group)].Time

StartTime(frame, serials, i) == Group(frame, serials[i])[1].Time

\* Variant: the final serial ends at its own first row.
EndTimeFinalFirstRow(frame, serials, i) ==
    IF i < Len(serials)
    THEN Group(frame, serials[i + 1])[1].Time
    ELSE Group(frame, serials[i])[1].Time

EndTime(frame, serials, i) ==
    IF i < Len(serials)
    THEN Group(frame, serials[i + 1])[1].Time
    ELSE LET group == Group(frame, serials[i]) IN group[Len(group)].Time

SerialTimeline(frame) ==
    LET serials == Serials(frame)
    IN [i \in 1..Len(serials) |->
          [Serial |-> serials[i],
           Start  |-> StartTime(frame, serials, i),
           End    |-> EndTime(frame, serials, i)]]

----------------------------------------------------------------------------
(* Selection: dropdown options and the stored index (0-based, as in the code) *)

Options(frame) == <<OverallTimeline>> \o Serials(frame)

\* list.index(x): position of the first element equal to x.
OptionsIndex(options, x) ==
    CHOOSE i \in 0..(Len(options) - 1) :
        /\ options[i + 1] = x
        /\ \A j \in 0..(i - 1) : options[j + 1] # x

\* The selectbox shows options[index] unless the user picked another option.
Selectbox(options, index, picked) ==
    IF picked \in 0..(Len(options) - 1) THEN options[picked + 1] ELSE options[index + 1]

\* Variant: the button returns to the first option.
PreviousIndexToFirst(index) == IF index > 0 THEN 0 ELSE index

PreviousIndex(index) == IF index > 0 THEN index - 1 ELSE index

\* Variant: the button wraps around after the last option.
NextIndexWrapping(index, options) == IF index < Len(options) - 1 THEN index + 1 ELSE 0

NextIndex(index, options) == IF index < Len(options) - 1 THEN index + 1 ELSE index

----------------------------------------------------------------------------
(* Detailed (inject-level) timeline *)

OverallEnd(timeline_df, selected_serial) ==
    SelectSeq(timeline_df, LAMBDA r : r.Serial = selected_serial)[1].End

\* Variant: the final inject ends at its own Time.
InjectEndOwnTime(group, i, overall_end) ==
    IF i < Len(group) THEN group[i + 1].Time ELSE group[i].Time

InjectEnd(group, i, overall_end) ==
    IF i < Len(group) THEN group[i + 1].Time ELSE overall_end

MessageVal(message) == IF message # NaN THEN message ELSE <<>>

\* Variant: "null" is compared without lower().
SubjectIsAbsentCaseSensitive(subject_val) ==
    \/ subject_val = NaN
    \/ Strip(subject_val) = <<>>
    \/ Strip(subject_val) = <<"n", "u", "l", "l">>

SubjectIsAbsent(subject_val) ==
    \/ subject_val = NaN
    \/ Strip(subject_val) = <<>>
    \/ Lower(Strip(subject_val)) = <<"n", "u", "l", "l">>

\* Variant: the slice keeps one character too many.
TruncateOneMore(text, n) ==
    IF Len(text) > n THEN SubSeq(text, 1, n + 1) \o Ellipsis ELSE text

Truncate(text, n) ==
    IF Len(text) > n THEN SubSeq(text, 1, n) \o Ellipsis ELSE text

DisplayText(subject_val, message_val) ==
    IF SubjectIsAbsent(subject_val)
    THEN Truncate(message_val, DisplayLimit)
    ELSE subject_val

MessageSnippet(message_val) == Truncate(message_val, SnippetLimit)

ImageUrl(cell) == IF cell # NaN THEN cell ELSE <<>>

AxisLabel(row, radio, i) ==
    [base |-> IF radio = "Persona" THEN row.From ELSE row.Method, number |-> i]

InjectTimeline(frame, timeline_df, selected_serial, radio) ==
    LET group       == Group(frame, selected_serial)
        overall_end == OverallEnd(timeline_df, selected_serial)
    IN [i \in 1..Len(group) |->
          [InjectOrder    |-> i - 1,
           AxisLabel      |-> AxisLabel(group[i], radio, i),
           Start          |-> group[i].Time,
           End            |-> InjectEnd(group, i, overall_end),
           DisplayText    |-> DisplayText(group[i].Subject, MessageVal(group[i].Message)),
           MessageSnippet |-> MessageSnippet(MessageVal(group[i].Message)),
           ImageURL       |-> ImageUrl(group[i].ImageURL)]]

\* transform_filter("datum.ImageURL != ''")
ImageLayer(timeline) == SelectSeq(timeline, LAMBDA r : r.ImageURL # <<>>)

----------------------------------------------------------------------------
(* Uploaded files considered *)

PlainRow(serial, time) ==
    [Serial |-> serial, Time |-> time, Subject |-> <<"H", "i">>, Message |-> <<"a">>,
     ImageURL |-> <<>>, From |-> "Alice", Method |-> "Email"]

PlainRows == {PlainRow(s, t) : s \in Keys, t \in Times \cup {BadTime}}

\* Serial names are opaque: files are taken up to renaming, with the names
\* first appearing in the file in the order of KeyNames.
InNameOrder(rows) ==
    LET serials == Serials(rows) IN serials = SubSeq(KeyNames, 1, Len(serials))

\* The rows of the file are already in the order sort_values accepts.
IsAscending(rows) ==
    LET frame == ToDatetime(rows)
    IN \A i, j \in 1..Len(rows) : i < j => TimeLE(frame[i].Time, frame[j].Time)

FilesOfLength(n) == {rows \in [1..n -> PlainRows] : InNameOrder(rows)}

\* sort_values yields the same arrangements for every order of the same
\* rows, so the longest files are taken in ascending order only; the shorter
\* ones in every order.
TimelineUploads ==
    UNION {{rows \in FilesOfLength(n) : IsAscending(rows)} : n \in 0..MaxRows}
    \cup UNION {FilesOfLength(n) : n \in 0..MaxShuffled}

Texts == UNION {[1..n -> {"a", "."}] : n \in 0..MaxText}

Subjects ==
    { <<>>, <<" ", " ">>, <<"n", "u", "l", "l">>, <<"N", "U", "L", "L">>,
      <<"N", "u", "l", "l">>, <<" ", "n", "u", "l", "l", " ">>,
      <<"H", "i">>, <<" ", "H", "i">>, Rep("s", DisplayLimit + 1) }

Messages ==
    Texts \cup
    { Rep("a", n) : n \in {DisplayLimit - 1, DisplayLimit, DisplayLimit + 1, DisplayLimit + 3,
                           DisplayLimit + 4, SnippetLimit, SnippetLimit + 1, SnippetLimit + 4} }
    \cup { Rep("a", DisplayLimit - 1) \o Ellipsis, Rep(".", DisplayLimit + 2) }

ImageURLs == { <<>>, <<" ", " ">>, <<"u">>, <<" ", "u">> }

LabelUploads ==
    { << [Serial |-> KeyNames[1], Time |-> 1, Subject |-> s, Message |-> m,
          ImageURL |-> u, From |-> "Alice", Method |-> "Email"] >> :
      s \in Subjects, m \in Messages, u \in ImageURLs }

Uploads == TimelineUploads \cup LabelUploads

----------------------------------------------------------------------------
(* The script *)

Init ==
    /\ uploaded_file = [present |-> FALSE, rows |-> <<>>]
    /\ df = <<>>
    /\ session_state = <<>>
    /\ label_option = "Persona"
    /\ serial_timeline = <<>>
    /\ inject_timeline = <<>>
    /\ image_layer = <<>>
    /\ screen = "info"
    /\ last_event = [kind |-> "none", index |-> 0]

\* Lines 57-217 of one run: frame is the sorted DataFrame, index the value of
\* session_state.serial_index after the buttons, radio the radio's value.
\* The sort of the serial timeline by Start leaves the order of equal Starts
\* open: the detailed view looks its serial up in any of the arrangements.
\* The y order the overall chart takes from the sorted timeline is drawing
\* and is not kept in the state.
Render(frame, index, radio) ==
    LET selected_serial == Options(frame)[index + 1]
        sorted_timelines == SortValues(SerialTimeline(frame), "Start")
    IN /\ serial_timeline' = SerialTimeline(frame)
       /\ IF selected_serial = OverallTimeline
          THEN /\ screen' = "overall"
               /\ label_option' = "Persona"
               /\ inject_timeline' = <<>>
               /\ image_layer' = <<>>
          ELSE /\ screen' = "detailed"
               /\ label_option' = radio
               /\ inject_timeline' \in
                      {InjectTimeline(frame, timeline_df, selected_serial, radio) :
                          timeline_df \in sorted_timelines}
               /\ image_layer' = ImageLayer(inject_timeline')

\* The first run with a file: read, convert, sort, initialise the session
\* state and render the selectbox's default option.  The sort leaves the
\* order of equal Times open; the later runs sort the same data with the same
\* algorithm and so repeat the arrangement chosen here.
FirstRun(rows) ==
    /\ uploaded_file' = [present |-> TRUE, rows |-> rows]
    /\ last_event' = [kind |-> "upload", index |-> 0]
    /\ LET frame == ToDatetime(ReadCsv(rows))
       IN IF AllTimeNull(frame)
          THEN /\ screen' = "error"
               /\ df' = frame
               /\ UNCHANGED <<session_state, label_option, serial_timeline,
                              inject_timeline, image_layer>>
          ELSE /\ df' \in SortValues(frame, "Time")
               /\ LET options == Options(df')
                      index   == OptionsIndex(options, Selectbox(options, 0, -1))
                  IN /\ session_state' = [serial_index |-> index]
                     /\ Render(df', index, "Persona")

\* The user uploads a CSV file; the uploader is empty until then.
Upload ==
    /\ ~uploaded_file.present
    /\ \E rows \in Uploads : FirstRun(rows)

Running == screen \in {"overall", "detailed"}

\* The user picks option number picked in the dropdown.
Select(picked) ==
    /\ Running
    /\ picked \in 0..(Len(Options(df)) - 1)
    /\ last_event' = [kind |-> "select", index |-> picked]
    /\ LET options == Options(df)
           index   == OptionsIndex(options,
                          Selectbox(options, session_state.serial_index, picked))
       IN /\ session_state' = [session_state EXCEPT !.serial_index = index]
          /\ Render(df, index, label_option)
    /\ UNCHANGED <<uploaded_file, df>>

ClickPrevious ==
    /\ Running
    /\ last_event' = [kind |-> "previous", index |-> session_state.serial_index]
    /\ LET options == Options(df)
           index   == OptionsIndex(options,
                          Selectbox(options, session_state.serial_index, -1))
           stepped == PreviousIndex(index)
       IN /\ session_state' = [session_state EXCEPT !.serial_index = stepped]
          /\ Render(df, stepped, label_option)
    /\ UNCHANGED <<uploaded_file, df>>

ClickNext ==
    /\ Running
    /\ last_event' = [kind |-> "next", index |-> session_state.serial_index]
    /\ LET options == Options(df)
           index   == OptionsIndex(options,
                          Selectbox(options, session_state.serial_index, -1))
           stepped == NextIndex(index, options)
       IN /\ session_state' = [session_state EXCEPT !.serial_index = stepped]
          /\ Render(df, stepped, label_option)
    /\ UNCHANGED <<uploaded_file, df>>

\* The user switches the radio of the detailed view.
SelectLabel(radio) ==
    /\ screen = "detailed"
    /\ radio # label_option
    /\ last_event' = [kind |-> "radio", index |-> session_state.serial_index]
    /\ Render(df, session_state.serial_index, radio)
    /\ UNCHANGED <<uploaded_file, df, session_state>>

Next ==
    \/ Upload
    \/ \E picked \in 0..MaxRows : Select(picked)
    \/ ClickPrevious
    \/ ClickNext
    \/ \E radio \in {"Persona", "Channel"} : SelectLabel(radio)

Spec == Init /\ [][Next]_vars

TypeOK ==
    /\ screen \in {"info", "error", "overall", "detailed"}
    /\ label_option \in {"Persona", "Channel"}
    /\ Running => "serial_index" \in DOMAIN session_state

----------------------------------------------------------------------------
(* Properties *)

\* Every row of the sorted DataFrame has a parsed Time.
TimesValid == \A i \in 1..Len(df) : df[i].Time # NaT

\* C1: for rows sorted ascending by timestamp, each serial's interval starts
\* at the timestamp of the serial's first row; the serials are in the order of
\* their first rows; every serial but the last ends where the next serial
\* starts; the last serial ends at the maximum timestamp of its rows; a single
\* row gives the zero-width interval [t0, t0).
GroupIntervalBoundaries ==
    (Running /\ TimesValid) =>
        LET n == Len(serial_timeline)
            RowsOf(k) == {i \in 1..Len(df) : df[i].Serial = serial_timeline[k].Serial}
            FirstRow(k) == CHOOSE i \in RowsOf(k) : \A j \in RowsOf(k) : i <= j
        IN /\ n >= 1
           /\ {serial_timeline[k].Serial : k \in 1..n} = {df[i].Serial : i \in 1..Len(df)}
           /\ \A k \in 1..n :
                /\ RowsOf(k) # {}
                /\ serial_timeline[k].Start = df[FirstRow(k)].Time
                /\ k < n => /\ FirstRow(k) < FirstRow(k + 1)
                            /\ serial_timeline[k].End = serial_timeline[k + 1].Start
                /\ k = n => /\ serial_timeline[k].End \in {df[i].Time : i \in RowsOf(k)}
                            /\ \A i \in RowsOf(k) : df[i].Time <= serial_timeline[k].End
           /\ Len(df) = 1 =>
                serial_timeline = <<[Serial |-> df[1].Serial, Start |-> df[1].Time,
                                     End |-> df[1].Time]>>

\* Two serials, the last one with rows at different times.
GroupIntervalBoundariesWitness ==
    /\ Running
    /\ TimesValid
    /\ Len(serial_timeline) >= 2
    /\ serial_timeline[Len(serial_timeline)].End > serial_timeline[Len(serial_timeline)].Start

\* C8: for rows with non-decreasing timestamps every serial interval has
\* End >= Start, also when the rows of a serial are not contiguous.
GroupIntervalOrdered ==
    (Running /\ TimesValid) =>
        \A k \in 1..Len(serial_timeline) : serial_timeline[k].End >= serial_timeline[k].Start

\* A serial whose rows are separated by a row of another serial.
GroupIntervalOrderedWitness ==
    /\ Running
    /\ TimesValid
    /\ \E i, j, k \in 1..Len(df) :
         /\ i < j /\ j < k
         /\ df[i].Serial = df[k].Serial
         /\ df[i].Serial # df[j].Serial
         /\ df[i].Time < df[k].Time

\* The rows of df that belong to the focused serial, numbered from 1 in
\* the order of df.
FocusedSerial == serial_timeline[session_state.serial_index].Serial

FocusedRows == {i \in 1..Len(df) : df[i].Serial = FocusedSerial}

FocusedRow(j) == CHOOSE i \in FocusedRows : Cardinality({m \in FocusedRows : m < i}) = j - 1

\* C2: in the detailed view each inject interval starts at the row's own
\* timestamp; every row but the last of the serial ends at the timestamp of
\* the serial's next row; the last row ends at the serial's End of the serial
\* timeline.
RowIntervalBoundaries ==
    screen = "detailed" =>
        LET n == Cardinality(FocusedRows)
        IN /\ Len(inject_timeline) = n
           /\ \A j \in 1..n :
                /\ inject_timeline[j].Start = df[FocusedRow(j)].Time
                /\ j < n => inject_timeline[j].End = df[FocusedRow(j + 1)].Time
                /\ j = n => inject_timeline[j].End =
                                serial_timeline[session_state.serial_index].End

\* A focused serial of two rows whose last inject ends later than it starts.
RowIntervalBoundariesWitness ==
    /\ screen = "detailed"
    /\ Len(inject_timeline) >= 2
    /\ TimesValid
    /\ inject_timeline[Len(inject_timeline)].End > inject_timeline[Len(inject_timeline)].Start

NavigationNoWrap ==
    Running =>
        /\ (last_event.kind = "previous" /\ last_event.index = 1) =>
               session_state.serial_index = 1
        /\ (last_event.kind = "next" /\ last_event.index = Len(serial_timeline)) =>
               session_state.serial_index = Len(serial_timeline)

\* C3 amended: "Next Serial" with the last serial focused leaves the selection
\* unchanged; "Previous Serial" with the first serial focused selects the
\* Overall Timeline, and is a no-op only there.
NavigationEdges ==
    Running =>
        /\ (last_event.kind = "next" /\ last_event.index = Len(serial_timeline)) =>
               /\ session_state.serial_index = Len(serial_timeline)
               /\ screen = IF Len(serial_timeline) = 0 THEN "overall" ELSE "detailed"
        /\ (last_event.kind = "previous" /\ last_event.index = 1) =>
               /\ session_state.serial_index = 0
               /\ screen = "overall"
        /\ (last_event.kind = "previous" /\ last_event.index = 0) =>
               /\ session_state.serial_index = 0
               /\ screen = "overall"

\* "Next Serial" was clicked with the last of at least two serials focused.
NavigationEdgesWitness ==
    /\ Running
    /\ Len(serial_timeline) >= 2
    /\ last_event.kind = "next"
    /\ last_event.index = Len(serial_timeline)
    /\ session_state.serial_index = Len(serial_timeline)

\* C10: over a fixed file the stored index stays within 0 .. number of
\* serials, index 0 shows the Overall Timeline and any other index the
\* injects of an existing serial, and a button click moves the index by at
\* most one.
SerialIndexInRange ==
    Running =>
        LET groups == {df[i].Serial : i \in 1..Len(df)}
            index  == session_state.serial_index
        IN /\ index \in 0..Cardinality(groups)
           /\ index = 0 <=> screen = "overall"
           /\ index > 0 =>
                /\ screen = "detailed"
                /\ FocusedSerial \in groups
                /\ Len(inject_timeline) >= 1
           /\ last_event.kind \in {"previous", "next"} =>
                /\ index - last_event.index <= 1
                /\ last_event.index - index <= 1

\* "Previous Serial" was clicked on the third option.
SerialIndexInRangeWitness ==
    /\ Running
    /\ last_event.kind = "previous"
    /\ last_event.index = 2
    /\ session_state.serial_index = 1

TruncateIdempotent ==
    /\ \A i \in 1..Len(df) :
         \A n \in (0..(MaxText + 1)) \cup {DisplayLimit, SnippetLimit} :
            LET message == MessageVal(df[i].Message)
            IN /\ Truncate(Truncate(message, n), n) = Truncate(message, n)
               /\ Len(Truncate(message, n)) <= n + 3
    /\ \A j \in 1..Len(inject_timeline) :
         /\ Truncate(inject_timeline[j].MessageSnippet, SnippetLimit) =
                inject_timeline[j].MessageSnippet
         /\ Len(inject_timeline[j].MessageSnippet) <= SnippetLimit + 3
         /\ df[FocusedRow(j)].Subject = NaN =>
              /\ Truncate(inject_timeline[j].DisplayText, DisplayLimit) =
                     inject_timeline[j].DisplayText
              /\ Len(inject_timeline[j].DisplayText) <= DisplayLimit + 3

\* A Message longer than both limits was cut for the bar and for the tooltip.
TruncateIdempotentWitness ==
    /\ screen = "detailed"
    /\ \E j \in 1..Len(inject_timeline) :
         /\ df[FocusedRow(j)].Subject = NaN
         /\ Len(df[FocusedRow(j)].Message) > SnippetLimit
         /\ Len(inject_timeline[j].DisplayText) = DisplayLimit + 3
         /\ Len(inject_timeline[j].MessageSnippet) = SnippetLimit + 3

\* C6: an inject gets an image mark only if its ImageURL is present and not
\* blank after trimming.
ImageOnlyIfNotBlank ==
    screen = "detailed" =>
        \A j \in 1..Len(inject_timeline) :
            (\E k \in 1..Len(image_layer) : image_layer[k].InjectOrder = j - 1) =>
                /\ df[FocusedRow(j)].ImageURL # NaN
                /\ Strip(df[FocusedRow(j)].ImageURL) # <<>>

\* The file as given has a row whose Time is earlier than the row before it.
GivenUnsorted ==
    /\ uploaded_file.present
    /\ \E i \in 1..(Len(uploaded_file.rows) - 1) :
         /\ uploaded_file.rows[i].Time # BadTime
         /\ uploaded_file.rows[i + 1].Time # BadTime
         /\ uploaded_file.rows[i + 1].Time < uploaded_file.rows[i].Time

\* C7 as stated: a file with a row earlier than its predecessor is rejected
\* and no intervals are produced.
UnsortedInputRejected ==
    GivenUnsorted => (screen = "error" /\ serial_timeline = <<>>)

\* C7 amended: such a file is accepted: its rows are rearranged in ascending
\* Time order (rows without a Time last), none lost or added, and the serial
\* intervals are built from the rearranged rows.
UnsortedInputSorted ==
    GivenUnsorted =>
        LET frame == ToDatetime(ReadCsv(uploaded_file.rows))
        IN /\ Running
           /\ Len(serial_timeline) >= 1
           /\ Len(df) = Len(frame)
           /\ \A i \in 1..Len(frame) :
                Cardinality({k \in 1..Len(df) : df[k] = frame[i]}) =
                Cardinality({k \in 1..Len(frame) : frame[k] = frame[i]})
           /\ \A i, j \in 1..Len(df) :
                i < j => \/ df[j].Time = NaT
                         \/ (df[i].Time # NaT /\ df[i].Time <= df[j].Time)
           /\ serial_timeline[1].Start = df[1].Time

\* A file given in descending order was rendered.
UnsortedInputSortedWitness ==
    /\ GivenUnsorted
    /\ Running
    /\ Len(uploaded_file.rows) >= 2
    /\ uploaded_file.rows[1].Time > uploaded_file.rows[Len(uploaded_file.rows)].Time
    /\ uploaded_file.rows[Len(uploaded_file.rows)].Time # BadTime
    /\ df[1].Time < df[Len(df)].Time

====
